---- MODULE Spec2Model ----
(***************************************************************************)
(* A model of the nmap front end of src/main.py: the parser declared in    *)
(* parse_args, strip_url, interactive_mode, build_command and main.        *)
(*                                                                         *)
(* Python strings are TLA+ strings (TLC evaluates Len, \o and SubSeq on    *)
(* them); a Python list of strings is a sequence of strings.  A Python     *)
(* value of a Namespace attribute is a tagged record, because an attribute *)
(* holds a bool, a str, an int or None at different times and the code     *)
(* decides on its truthiness.                                              *)
(***************************************************************************)
EXTENDS Integers, Sequences, FiniteSets, TLC

VARIABLES
  argv,        \* sys.argv[1:], never written
  stdin,       \* the lines standard input holds, never written
  nread,       \* how many of them input() has returned
  pc,          \* the statement of main / interactive_mode that runs next
  args,        \* main: args (the Namespace parse_args returned), NoValue before
  target,      \* interactive_mode: target
  choices,     \* interactive_mode: choices
  cfg,         \* the configuration, NoValue until one exists
  cmd,         \* main: cmd
  child,       \* the child process: not started, running, or ended with a return code
  exitStatus,  \* the exit status of this process, Running until it ends
  out,         \* what was printed on standard output, in order
  err,         \* what was written on the error stream, in order
  log          \* counters of the steps taken: parses, prompts, builds, launches

vars == <<argv, stdin, nread, pc, args, target, choices, cfg, cmd, child, exitStatus, out, err, log>>

(***************************************************************************)
(* Bounds of the enumerated inputs.                                        *)
(***************************************************************************)
MaxArgs == 3
MaxItems == 3
MaxPieces == 3

(***************************************************************************)
(* Python values.                                                          *)
(***************************************************************************)
None == [t |-> "none"]
B(b) == [t |-> "bool", v |-> b]
S(s) == [t |-> "str", v |-> s]
N(n) == [t |-> "int", v |-> n]

\* bool(v): what `if v:` and `not v` and `v or d` decide on
Truthy(v) ==
  CASE v.t = "none" -> FALSE
    [] v.t = "bool" -> v.v
    [] v.t = "str"  -> v.v # ""
    [] v.t = "int"  -> v.v # 0

NoValue == [t |-> "unbound"]

\* the states of the child process
NoChild == [st |-> "none"]
ChildRunning == [st |-> "running"]
ChildEnded(rc) == [st |-> "ended", rc |-> rc]

Running == -1

(***************************************************************************)
(* str methods.                                                            *)
(***************************************************************************)
Char(s, i) == SubSeq(s, i, i)

\* s[i-1:] (TLA+ counts from 1)
From(s, i) == SubSeq(s, i, Len(s))

\* whether the literal lit is found in s at position i
LitAt(s, i, lit) == i + Len(lit) - 1 <= Len(s) /\ SubSeq(s, i, i + Len(lit) - 1) = lit

StartsWith(s, p) == LitAt(s, 1, p)

\* the whitespace the enumerated strings hold
Whitespace == {" "}

RECURSIVE LStrip(_)
LStrip(s) == IF s # "" /\ Char(s, 1) \in Whitespace THEN LStrip(From(s, 2)) ELSE s

RECURSIVE RStrip(_)
RStrip(s) ==
  IF s # "" /\ Char(s, Len(s)) \in Whitespace THEN RStrip(SubSeq(s, 1, Len(s) - 1)) ELSE s

\* str.strip()
Strip(s) == RStrip(LStrip(s))

UpperCase == "ABCDEFGHIJKLMNOPQRSTUVWXYZ"
LowerCase == "abcdefghijklmnopqrstuvwxyz"

LowerChar(c) ==
  IF \E i \in 1..Len(UpperCase) : Char(UpperCase, i) = c
  THEN Char(LowerCase, CHOOSE i \in 1..Len(UpperCase) : Char(UpperCase, i) = c)
  ELSE c

RECURSIVE Lower(_)
\* str.lower()
Lower(s) == IF s = "" THEN "" ELSE LowerChar(Char(s, 1)) \o Lower(From(s, 2))

RECURSIVE Split(_, _)
\* str.split(sep) for a one-character sep: '' splits to ['']
Split(s, sep) ==
  IF \E i \in 1..Len(s) : Char(s, i) = sep
  THEN LET i == CHOOSE k \in 1..Len(s) :
                  Char(s, k) = sep /\ \A j \in 1..(k - 1) : Char(s, j) # sep
       IN <<SubSeq(s, 1, i - 1)>> \o Split(From(s, i + 1), sep)
  ELSE <<s>>

RECURSIVE Join(_, _)
\* sep.join(list)
Join(list, sep) ==
  IF list = <<>> THEN ""
  ELSE IF Len(list) = 1 THEN list[1]
  ELSE list[1] \o sep \o Join(Tail(list), sep)

\* x in list
In(x, list) == \E i \in 1..Len(list) : list[i] = x

Digits == "0123456789"

IsDigit(c) == \E i \in 1..Len(Digits) : Char(Digits, i) = c

DigitVal(c) == (CHOOSE i \in 1..Len(Digits) : Char(Digits, i) = c) - 1

RECURSIVE DigitsVal(_)
DigitsVal(s) ==
  IF s = "" THEN 0 ELSE 10 * DigitsVal(SubSeq(s, 1, Len(s) - 1)) + DigitVal(Char(s, Len(s)))

\* the literal of s with its sign removed
Unsigned(s) == IF s # "" /\ Char(s, 1) \in {"+", "-"} THEN From(s, 2) ELSE s

\* whether int(s) returns (it raises ValueError otherwise): surrounding
\* whitespace, one optional sign, then decimal digits
IsIntLiteral(s) ==
  LET u == Unsigned(Strip(s))
  IN u # "" /\ \A i \in 1..Len(u) : IsDigit(Char(u, i))

\* int(s), for a literal
IntOf(s) ==
  LET t == Strip(s)
  IN IF StartsWith(t, "-") THEN 0 - DigitsVal(Unsigned(t)) ELSE DigitsVal(Unsigned(t))

(***************************************************************************)
(* strip_url: re.sub(r'^(https?://)?(www\.)?', '', target).  The pattern   *)
(* is anchored, so it matches once, at the start; each group is optional   *)
(* and greedy.                                                             *)
(***************************************************************************)
\* SchemeGroup for the pattern (http://)?, the s? forgotten
SchemeGroupHttpOnly(s, i) == IF LitAt(s, i, "http://") THEN i + 7 ELSE i

\* the end of the match of (https?://)? begun at position i
SchemeGroup(s, i) ==
  IF LitAt(s, i, "http")
  THEN IF LitAt(s, i + 4, "s") /\ LitAt(s, i + 5, "://") THEN i + 8
       ELSE IF LitAt(s, i + 4, "://") THEN i + 7
       ELSE i
  ELSE i

\* the end of the match of (www\.)? begun at position i
WwwGroup(s, i) == IF LitAt(s, i, "www.") THEN i + 4 ELSE i

strip_url(s) == From(s, WwwGroup(s, SchemeGroup(s, 1)))

(***************************************************************************)
(* parse_args: the parser main.py declares, as argparse runs it.  The      *)
(* option strings are matched whole; abbreviations (--dec), values joined  *)
(* to their option (-T5, --ports=80) and the "--" separator are forms of   *)
(* the command line the enumerated ArgvTokens leave out.                   *)
(***************************************************************************)
\* action='store_true': option string -> dest
FlagDest ==
  ("-i" :> "interactive") @@ ("--interactive" :> "interactive") @@
  ("-sS" :> "syn_scan") @@ ("--syn-scan" :> "syn_scan") @@
  ("-sT" :> "connect_scan") @@ ("--connect-scan" :> "connect_scan") @@
  ("-sU" :> "udp_scan") @@ ("--udp-scan" :> "udp_scan") @@
  ("-sV" :> "version_detect") @@ ("--version-detect" :> "version_detect") @@
  ("-sC" :> "script_default") @@ ("--script-default" :> "script_default") @@
  ("-O" :> "os_detect") @@ ("--os-detect" :> "os_detect") @@
  ("-Pn" :> "skip_ping") @@ ("--skip-ping" :> "skip_ping")

\* options that take one value: option string -> dest
ValueDest ==
  ("--script-cats" :> "script_cats") @@ ("--script-file" :> "script_file") @@
  ("--decoy" :> "decoy") @@
  ("-T" :> "timing") @@ ("--timing" :> "timing") @@
  ("-p" :> "ports") @@ ("--ports" :> "ports") @@
  ("-oN" :> "output_normal") @@ ("--output-normal" :> "output_normal") @@
  ("-oX" :> "output_xml") @@ ("--output-xml" :> "output_xml") @@
  ("-oG" :> "output_grep") @@ ("--output-grep" :> "output_grep") @@
  ("-oJ" :> "output_json") @@ ("--output-json" :> "output_json")

\* ArgumentParser adds the help option itself
HelpOptions == {"-h", "--help"}

BoolFields == {FlagDest[o] : o \in DOMAIN FlagDest}

Fields == {"target"} \cup BoolFields \cup {ValueDest[o] : o \in DOMAIN ValueDest}

\* default=4 of -T
DefaultTiming == 4

\* TimingChoices for choices=range(0,10)
TimingChoicesWide == 0..9

\* choices=range(0,6) of -T
TimingChoices == 0..5

\* the Namespace before any argument is read
Defaults ==
  [f \in Fields |->
     IF f \in BoolFields THEN B(FALSE) ELSE IF f = "timing" THEN N(DefaultTiming) ELSE None]

AllDigits(s) == \A i \in 1..Len(s) : IsDigit(Char(s, i))

\* argparse's negative-number matcher, '^-\d+$|^-\d*\.\d+$'
IsNegativeNumber(s) ==
  /\ StartsWith(s, "-")
  /\ LET parts == Split(From(s, 2), ".")
     IN \/ Len(parts) = 1 /\ parts[1] # "" /\ AllDigits(parts[1])
        \/ Len(parts) = 2 /\ AllDigits(parts[1]) /\ parts[2] # "" /\ AllDigits(parts[2])

\* how argparse reads one argument string: "flag", "value" or "help" for a
\* declared option, "unknown" for any other string that looks like an
\* option, "A" for an argument
ArgClass(tok) ==
  IF tok = "" \/ ~StartsWith(tok, "-") THEN "A"
  ELSE IF tok \in DOMAIN FlagDest THEN "flag"
  ELSE IF tok \in DOMAIN ValueDest THEN "value"
  ELSE IF tok \in HelpOptions THEN "help"
  ELSE IF Len(tok) = 1 THEN "A"
  ELSE IF IsNegativeNumber(tok) THEN "A"
  ELSE IF \E i \in 1..Len(tok) : Char(tok, i) = " " THEN "A"
  ELSE "unknown"

\* the outcomes of parse_args: a Namespace, or the process exits
Parsed(ns) == [kind |-> "ok", ns |-> ns]
UsageError == [kind |-> "usage"]
HelpExit == [kind |-> "help"]

\* type=int, choices=range(0,6) applied to the value of -T
TimingAccepted(val) == IsIntLiteral(val) /\ IntOf(val) \in TimingChoices

\* the value stored for dest
Converted(dest, val) == IF dest = "timing" THEN N(IntOf(val)) ELSE S(val)

RECURSIVE ParseFrom(_, _, _, _, _)
\* argparse's scan of a from position i: ns is the Namespace so far, pending
\* whether the positional target is still to be matched, extras whether an
\* argument was left over.  An error in an option's value ends the scan at
\* once, -h ends it at once, and leftover arguments are reported at the end.
ParseFrom(a, i, ns, pending, extras) ==
  IF i > Len(a) THEN (IF extras THEN UsageError ELSE Parsed(ns))
  ELSE
    LET tok == a[i]
        class == ArgClass(tok)
    IN CASE class = "A" ->
              IF pending
              THEN ParseFrom(a, i + 1, [ns EXCEPT !.target = S(tok)], FALSE, extras)
              ELSE ParseFrom(a, i + 1, ns, FALSE, TRUE)
         [] class = "unknown" -> ParseFrom(a, i + 1, ns, pending, TRUE)
         [] class = "help" -> HelpExit
         [] class = "flag" ->
              ParseFrom(a, i + 1, [ns EXCEPT ![FlagDest[tok]] = B(TRUE)], pending, extras)
         [] class = "value" ->
              IF i = Len(a) \/ ArgClass(a[i + 1]) # "A" THEN UsageError
              ELSE IF ValueDest[tok] = "timing" /\ ~TimingAccepted(a[i + 1]) THEN UsageError
              ELSE ParseFrom(a, i + 2,
                             [ns EXCEPT ![ValueDest[tok]] = Converted(ValueDest[tok], a[i + 1])],
                             pending, extras)

parse_args(a) == ParseFrom(a, 1, Defaults, TRUE, FALSE)

(***************************************************************************)
(* The enumerated command lines: every sequence of at most MaxArgs of      *)
(* these argument strings.                                                 *)
(***************************************************************************)
ArgvTokens ==
  {"-i", "-sS", "-T", "-p", "-oX", "--decoy", "-z", "-h", "3", "9", "", "http://", "www.c.li"}

RECURSIVE SeqsUpTo(_, _)
SeqsUpTo(set, n) ==
  IF n = 0 THEN {<<>>}
  ELSE LET shorter == SeqsUpTo(set, n - 1)
       IN shorter \cup {Append(q, x) : q \in shorter, x \in set}

ArgvSet == SeqsUpTo(ArgvTokens, MaxArgs)

(***************************************************************************)
(* build_command.                                                          *)
(***************************************************************************)
RECURSIVE NatStr(_)
NatStr(n) == IF n < 10 THEN Char(Digits, n + 1) ELSE NatStr(n \div 10) \o Char(Digits, (n % 10) + 1)

\* str(n) of an int
IntStr(n) == IF n < 0 THEN "-" \o NatStr(0 - n) ELSE NatStr(n)

\* str(v), what an f-string puts for {v}
PyStr(v) ==
  CASE v.t = "none" -> "None"
    [] v.t = "bool" -> (IF v.v THEN "True" ELSE "False")
    [] v.t = "str"  -> v.v
    [] v.t = "int"  -> IntStr(v.v)

\* `if v: cmd.append(flag)`
AppendIf(c, v, flag) == IF Truthy(v) THEN Append(c, flag) ELSE c

\* ExtendIf with append in place of extend: the value is left out
ExtendIfFlagOnly(c, v, flag) == IF Truthy(v) THEN Append(c, flag) ELSE c

\* `if v: cmd.extend([flag, v])`
ExtendIf(c, v, flag) == IF Truthy(v) THEN c \o <<flag, v.v>> ELSE c

build_command(c) ==
  LET c56 == <<"sudo", "nmap">>
      c57 == AppendIf(c56, c.skip_ping, "-Pn")
      c58 == AppendIf(c57, c.syn_scan, "-sS")
      c59 == AppendIf(c58, c.connect_scan, "-sT")
      c60 == AppendIf(c59, c.udp_scan, "-sU")
      c61 == AppendIf(c60, c.version_detect, "-sV")
      c62 == AppendIf(c61, c.script_default, "-sC")
      c63 == ExtendIf(c62, c.script_cats, "--script")
      c64 == ExtendIf(c63, c.script_file, "--script")
      c65 == AppendIf(c64, c.os_detect, "-O")
      c66 == ExtendIf(c65, c.decoy, "--decoy")
      c67 == Append(c66, "-T" \o PyStr(c.timing))
      c68 == ExtendIf(c67, c.ports, "-p")
      c69 == Append(c68, c.target.v)
      c70 == ExtendIf(c69, c.output_normal, "-oN")
      c71 == ExtendIf(c70, c.output_xml, "-oX")
      c72 == ExtendIf(c71, c.output_grep, "-oG")
  IN ExtendIf(c72, c.output_json, "-oJ")

(***************************************************************************)
(* The enumerated runs: a command line and the lines standard input holds. *)
(* interactive_mode reads nine lines: target, scan numbers, skip-ping,     *)
(* NSE categories, script file, decoys, timing, ports, output file.        *)
(***************************************************************************)
DefaultAnswers == <<"t.io", "4", "n", "", "", "", "", "", "">>

TargetAnswers == {"", "t.io", "https://www.t.io", " www.t.io ", "http://", "www.www.t.io"}

ChoiceItems == {"1", "4", "6", "7", " 4", ""}

ChoiceLines == {Join(q, ",") : q \in SeqsUpTo(ChoiceItems, MaxItems) \ {<<>>}}

SkipAnswers == {"", "y", "Yes", "yep", "n", "no", " y"}

TextAnswers ==
  {<<"t.io", "1,4", "n", cats, file, decoy, timing, ports, output>> :
     cats \in {"", "vuln", " "}, file \in {"", "a.nse"}, decoy \in {"", " 10.0.0.9 "},
     timing \in {"", "0", "5", "9", "-1", " 2 ", " ", "fast"},
     ports \in {"", "80"}, output \in {"", "o.txt"}}

\* standard input closed early: every proper prefix of the nine answers
ShortAnswers == {SubSeq(DefaultAnswers, 1, n) : n \in 0..(Len(DefaultAnswers) - 1)}

Prompted ==
  {<<ans, "1,4">> \o SubSeq(DefaultAnswers, 3, 9) : ans \in TargetAnswers}
  \cup {<<"t.io", line>> \o SubSeq(DefaultAnswers, 3, 9) : line \in ChoiceLines}
  \cup {<<"t.io", "1,4", ans>> \o SubSeq(DefaultAnswers, 4, 9) : ans \in SkipAnswers}
  \cup TextAnswers \cup ShortAnswers

Inputs == {<<a, DefaultAnswers>> : a \in ArgvSet} \cup {<<<<>>, lines>> : lines \in Prompted}

\* the return codes subprocess.run may see: exit statuses, and -9 for a
\* child killed by signal 9
ChildCodes == {0, 1, 255, -9}

NoLog == [parses |-> 0, prompts |-> 0, builds |-> 0, launches |-> 0]

Init ==
  /\ \E in \in Inputs : argv = in[1] /\ stdin = in[2]
  /\ nread = 0
  /\ pc = "parse"
  /\ args = NoValue
  /\ target = NoValue
  /\ choices = NoValue
  /\ cfg = NoValue
  /\ cmd = NoValue
  /\ child = NoChild
  /\ exitStatus = Running
  /\ out = <<>>
  /\ err = <<>>
  /\ log = NoLog

(***************************************************************************)
(* How the process ends.                                                   *)
(***************************************************************************)
\* sys.exit(n), or the end of main (n = 0): the status the parent sees
Exit(n) == pc' = "exited" /\ exitStatus' = n % 256

\* an exception nothing catches: the traceback on the error stream, status 1
Uncaught(exc) == err' = Append(err, "Traceback: " \o exc) /\ Exit(1)

\* parse_args() at 'parse' or 'namespace' when argparse ends the process
\* itself: a usage error (status 2) or the help text (status 0)
ParserExit(r) ==
  IF r.kind = "usage"
  THEN err' = Append(err, "usage: error") /\ out' = out /\ Exit(2)
  ELSE out' = Append(out, "usage: help") /\ err' = err /\ Exit(0)

(***************************************************************************)
(* main.                                                                   *)
(***************************************************************************)
\* line 103: args = parse_args()
Parse ==
  /\ pc = "parse"
  /\ log' = [log EXCEPT !.parses = @ + 1]
  /\ LET r == parse_args(argv)
     IN IF r.kind = "ok"
        THEN args' = r.ns /\ pc' = "dispatch" /\ UNCHANGED <<exitStatus, out, err>>
        ELSE ParserExit(r) /\ args' = args
  /\ UNCHANGED <<argv, stdin, nread, target, choices, cfg, cmd, child>>

\* UseInteractive without the -i flag: `if not args.target`
UseInteractiveNoFlag(a) == ~Truthy(a.target)

\* line 104: args.interactive or not args.target
UseInteractive(a) == Truthy(a.interactive) \/ ~Truthy(a.target)

\* line 104, and line 78 when the branch is taken
Dispatch ==
  /\ pc = "dispatch"
  /\ IF UseInteractive(args)
     THEN pc' = "ask_target" /\ out' = Append(out, "--- Interactive Nmap Configuration ---")
     ELSE pc' = "strip" /\ out' = out
  /\ UNCHANGED <<argv, stdin, nread, args, target, choices, cfg, cmd, child, exitStatus, err, log>>

\* lines 107-108: args.target = strip_url(args.target); cfg = args
StripTarget ==
  /\ pc = "strip"
  /\ args' = [args EXCEPT !.target = S(strip_url(args.target.v))]
  /\ cfg' = args'
  /\ pc' = "build"
  /\ UNCHANGED <<argv, stdin, nread, target, choices, cmd, child, exitStatus, out, err, log>>

\* lines 109-110: cmd = build_command(cfg); print('Running:', ' '.join(cmd))
Build ==
  /\ pc = "build"
  /\ cmd' = build_command(cfg)
  /\ out' = Append(out, "Running: " \o Join(cmd', " "))
  /\ log' = [log EXCEPT !.builds = @ + 1]
  /\ pc' = "launch"
  /\ UNCHANGED <<argv, stdin, nread, args, target, choices, cfg, child, exitStatus, err>>

\* line 112: subprocess.run starts the child
Launch ==
  /\ pc = "launch"
  /\ child' = ChildRunning
  /\ log' = [log EXCEPT !.launches = @ + 1]
  /\ pc' = "wait"
  /\ UNCHANGED <<argv, stdin, nread, args, target, choices, cfg, cmd, exitStatus, out, err>>

\* line 112: subprocess.run cannot start the child (no sudo on the path):
\* FileNotFoundError, which main does not catch
LaunchFails ==
  /\ pc = "launch"
  /\ Uncaught("FileNotFoundError")
  /\ UNCHANGED <<argv, stdin, nread, args, target, choices, cfg, cmd, child, out, log>>

\* line 112: subprocess.run waits for the child; check=True raises
\* CalledProcessError on a return code other than 0
ChildExits ==
  /\ pc = "wait"
  /\ \E rc \in ChildCodes :
       /\ child' = ChildEnded(rc)
       /\ pc' = IF rc = 0 THEN "success" ELSE "except"
  /\ UNCHANGED <<argv, stdin, nread, args, target, choices, cfg, cmd, exitStatus, out, err, log>>

\* line 113: print('Scan complete.'), and main returns
ReportSuccess ==
  /\ pc = "success"
  /\ out' = Append(out, "Scan complete.")
  /\ Exit(0)
  /\ UNCHANGED <<argv, stdin, nread, args, target, choices, cfg, cmd, child, err, log>>

\* ErrorStatus for sys.exit(1)
ErrorStatusOne(rc) == 1

\* line 116: the argument of sys.exit, e.returncode
ErrorStatus(rc) == rc

\* ReportError with a retry: the child is launched again after a failure
ReportErrorRetry ==
  /\ pc = "except"
  /\ err' = Append(err, "Error: Command returned " \o IntStr(child.rc))
  /\ pc' = "launch"
  /\ UNCHANGED <<argv, stdin, nread, args, target, choices, cfg, cmd, child, exitStatus, out, log>>

\* lines 114-116: print(f'Error: {e}', file=sys.stderr); sys.exit(e.returncode)
ReportError ==
  /\ pc = "except"
  /\ err' = Append(err, "Error: Command returned " \o IntStr(child.rc))
  /\ Exit(ErrorStatus(child.rc))
  /\ UNCHANGED <<argv, stdin, nread, args, target, choices, cfg, cmd, child, out, log>>

(***************************************************************************)
(* interactive_mode.  Each input(prompt) is one step: it writes the prompt *)
(* and takes the next line of standard input.                              *)
(***************************************************************************)
PromptText ==
  ("ask_target" :> "Target IP/hostname/URL: ") @@
  ("ask_choices" :> "Enter numbers [1-6]: ") @@
  ("ask_skip_ping" :> "Skip host discovery? (y/N): ") @@
  ("ask_cats" :> "NSE categories (e.g. vuln,discovery) or leave blank: ") @@
  ("ask_file" :> "Specific NSE script file/dir or blank: ") @@
  ("ask_decoy" :> "Decoy IPs (comma separated) or blank: ") @@
  ("ask_timing" :> "Timing template (0-5) [4]: ") @@
  ("ask_ports" :> "Port range [1-1000]: ") @@
  ("ask_output" :> "Output file name [scan.txt]: ")

\* input(prompt) at pc: the prompt is written and a line is there to read
Input ==
  /\ nread < Len(stdin)
  /\ nread' = nread + 1
  /\ log' = [log EXCEPT !.prompts = @ + 1]

\* the line input() returns
Line == stdin[nread + 1]

\* input(prompt) on a standard input at its end: EOFError, not caught
EndOfInput ==
  /\ pc \in DOMAIN PromptText
  /\ nread >= Len(stdin)
  /\ out' = Append(out, PromptText[pc])
  /\ log' = [log EXCEPT !.prompts = @ + 1]
  /\ Uncaught("EOFError")
  /\ UNCHANGED <<argv, stdin, nread, args, target, choices, cfg, cmd, child>>

\* `s or d` for a str s
OrElse(s, d) == IF Truthy(S(s)) THEN S(s) ELSE d

\* lines 79-81
AskTarget ==
  /\ pc = "ask_target"
  /\ Input
  /\ target' = strip_url(Strip(Line))
  /\ out' = out \o <<PromptText[pc],
       "Select scans (comma separated): 1) SYN 2) Connect 3) UDP 4) Version 5) OS 6) Default scripts">>
  /\ pc' = "ask_choices"
  /\ UNCHANGED <<argv, stdin, args, choices, cfg, cmd, child, exitStatus, err>>

\* line 82
AskChoices ==
  /\ pc = "ask_choices"
  /\ Input
  /\ choices' = Split(Line, ",")
  /\ out' = Append(out, PromptText[pc])
  /\ pc' = "namespace"
  /\ UNCHANGED <<argv, stdin, args, target, cfg, cmd, child, exitStatus, err>>

\* argparse.Namespace(**{k: False for k in vars(ns)})
AllFalse(ns) == [k \in DOMAIN ns |-> B(FALSE)]

\* lines 83-84: parse_args() is called again, for the names of its attributes
NewNamespace ==
  /\ pc = "namespace"
  /\ log' = [log EXCEPT !.parses = @ + 1]
  /\ LET r == parse_args(argv)
     IN IF r.kind = "ok"
        THEN /\ cfg' = [AllFalse(r.ns) EXCEPT !.target = S(target)]
             /\ pc' = "ask_skip_ping"
             /\ UNCHANGED <<exitStatus, out, err>>
        ELSE ParserExit(r) /\ cfg' = cfg
  /\ UNCHANGED <<argv, stdin, nread, args, target, choices, cmd, child>>

\* line 85
AskSkipPing ==
  /\ pc = "ask_skip_ping"
  /\ Input
  /\ cfg' = [cfg EXCEPT !.skip_ping = B(StartsWith(Lower(Line), "y"))]
  /\ out' = Append(out, PromptText[pc])
  /\ pc' = "set_scans"
  /\ UNCHANGED <<argv, stdin, args, target, choices, cmd, child, exitStatus, err>>

\* lines 86-91, applied to the configuration c and the list ch
ScansChosen(c, ch) ==
  [c EXCEPT !.syn_scan = B(In("1", ch)),
            !.connect_scan = B(In("2", ch)),
            !.udp_scan = B(In("3", ch)),
            !.version_detect = B(In("4", ch)),
            !.os_detect = B(In("5", ch)),
            !.script_default = B(In("6", ch))]

SetScans ==
  /\ pc = "set_scans"
  /\ cfg' = ScansChosen(cfg, choices)
  /\ pc' = "ask_cats"
  /\ UNCHANGED <<argv, stdin, nread, args, target, choices, cmd, child, exitStatus, out, err, log>>

\* TextAnswer without .strip(): `input(...) or default`
TextAnswerNoStrip(line, default) == OrElse(line, default)

\* lines 92-94 and 96-97: `input(...).strip() or default`
TextAnswer(line, default) == OrElse(Strip(line), default)

\* line 92
AskCats ==
  /\ pc = "ask_cats"
  /\ Input
  /\ cfg' = [cfg EXCEPT !.script_cats = TextAnswer(Line, None)]
  /\ out' = Append(out, PromptText[pc])
  /\ pc' = "ask_file"
  /\ UNCHANGED <<argv, stdin, args, target, choices, cmd, child, exitStatus, err>>

\* line 93
AskFile ==
  /\ pc = "ask_file"
  /\ Input
  /\ cfg' = [cfg EXCEPT !.script_file = TextAnswer(Line, None)]
  /\ out' = Append(out, PromptText[pc])
  /\ pc' = "ask_decoy"
  /\ UNCHANGED <<argv, stdin, args, target, choices, cmd, child, exitStatus, err>>

\* line 94
AskDecoy ==
  /\ pc = "ask_decoy"
  /\ Input
  /\ cfg' = [cfg EXCEPT !.decoy = TextAnswer(Line, None)]
  /\ out' = Append(out, PromptText[pc])
  /\ pc' = "ask_timing"
  /\ UNCHANGED <<argv, stdin, args, target, choices, cmd, child, exitStatus, err>>

\* the 4 of `input(...) or 4`
PromptTiming == 4

\* line 95: whether int(input(...) or 4) returns
TimingParses(line) == line = "" \/ IsIntLiteral(line)

\* line 95: int(input(...) or 4)
TimingAnswer(line) == IF line = "" THEN N(PromptTiming) ELSE N(IntOf(line))

\* line 95; int() raises ValueError on a line that is no integer literal
AskTiming ==
  /\ pc = "ask_timing"
  /\ Input
  /\ out' = Append(out, PromptText[pc])
  /\ IF TimingParses(Line)
     THEN /\ cfg' = [cfg EXCEPT !.timing = TimingAnswer(Line)]
          /\ pc' = "ask_ports"
          /\ UNCHANGED <<exitStatus, err>>
     ELSE Uncaught("ValueError") /\ cfg' = cfg
  /\ UNCHANGED <<argv, stdin, args, target, choices, cmd, child>>

\* line 96
AskPorts ==
  /\ pc = "ask_ports"
  /\ Input
  /\ cfg' = [cfg EXCEPT !.ports = TextAnswer(Line, S("1-1000"))]
  /\ out' = Append(out, PromptText[pc])
  /\ pc' = "ask_output"
  /\ UNCHANGED <<argv, stdin, args, target, choices, cmd, child, exitStatus, err>>

\* line 97
AskOutput ==
  /\ pc = "ask_output"
  /\ Input
  /\ cfg' = [cfg EXCEPT !.output_normal = TextAnswer(Line, S("scan.txt"))]
  /\ out' = Append(out, PromptText[pc])
  /\ pc' = "return"
  /\ UNCHANGED <<argv, stdin, args, target, choices, cmd, child, exitStatus, err>>

\* line 98
OutputsCleared(c) ==
  [c EXCEPT !.output_xml = None, !.output_grep = None, !.output_json = None]

\* lines 98-99, and the assignment of line 105
Return ==
  /\ pc = "return"
  /\ cfg' = OutputsCleared(cfg)
  /\ pc' = "build"
  /\ UNCHANGED <<argv, stdin, nread, args, target, choices, cmd, child, exitStatus, out, err, log>>

Next ==
  \/ Parse \/ Dispatch \/ StripTarget \/ Build
  \/ Launch \/ LaunchFails \/ ChildExits \/ ReportSuccess \/ ReportError
  \/ AskTarget \/ AskChoices \/ NewNamespace \/ AskSkipPing \/ SetScans
  \/ AskCats \/ AskFile \/ AskDecoy \/ AskTiming \/ AskPorts \/ AskOutput
  \/ Return \/ EndOfInput

Spec == Init /\ [][Next]_vars

(***************************************************************************)
(* strip_url alone: one call on each enumerated string.                    *)
(***************************************************************************)
StripPieces ==
  {"http://", "https://", "www.", "example.com", "test.org", "http:/", "www", "HTTP://"}

RECURSIVE Concat(_)
Concat(q) == IF q = <<>> THEN "" ELSE Head(q) \o Concat(Tail(q))

StripInputs == {Concat(q) : q \in SeqsUpTo(StripPieces, MaxPieces)}

\* the variables main uses and a single call leaves alone
Idle ==
  /\ stdin = <<>>
  /\ nread = 0
  /\ args = NoValue
  /\ choices = NoValue
  /\ child = NoChild
  /\ exitStatus = Running
  /\ out = <<>>
  /\ err = <<>>
  /\ log = NoLog

InitStrip ==
  /\ \E s \in StripInputs : argv = <<s>>
  /\ pc = "strip_url"
  /\ target = NoValue
  /\ cfg = NoValue
  /\ cmd = NoValue
  /\ Idle

\* target = strip_url(argv[1])
CallStripUrl ==
  /\ pc = "strip_url"
  /\ target' = strip_url(argv[1])
  /\ pc' = "returned"
  /\ UNCHANGED <<argv, stdin, nread, args, choices, cfg, cmd, child, exitStatus, out, err, log>>

SpecStrip == InitStrip /\ [][CallStripUrl]_vars

(***************************************************************************)
(* build_command alone: one call on each enumerated configuration.  The    *)
(* records are those of parse_args: every combination of the boolean       *)
(* flags and timing levels, and every combination of the eight optional    *)
(* strings, each absent, empty or set to a value of its own.               *)
(***************************************************************************)
OptionalFields ==
  <<"script_cats", "script_file", "decoy", "ports",
    "output_normal", "output_xml", "output_grep", "output_json">>

OptionalValue ==
  ("script_cats" :> "vuln,discovery") @@ ("script_file" :> "a.nse") @@
  ("decoy" :> "10.0.0.9") @@ ("ports" :> "1-65535") @@
  ("output_normal" :> "n.txt") @@ ("output_xml" :> "x.xml") @@
  ("output_grep" :> "g.gnmap") @@ ("output_json" :> "j.json")

BaseCfg == [Defaults EXCEPT !.target = S("example.com")]

FlagCfgs ==
  {[f \in Fields |->
      IF f \in BoolFields \ {"interactive"} THEN B(f \in on)
      ELSE IF f = "timing" THEN N(level)
      ELSE BaseCfg[f]] :
     on \in SUBSET (BoolFields \ {"interactive"}), level \in TimingChoices}

OptionalCfgs ==
  {[f \in Fields |->
      IF \E i \in 1..Len(OptionalFields) : OptionalFields[i] = f
      THEN LET i == CHOOSE k \in 1..Len(OptionalFields) : OptionalFields[k] = f
           IN CASE pick[i] = 0 -> None
                [] pick[i] = 1 -> S("")
                [] pick[i] = 2 -> S(OptionalValue[f])
      ELSE base[f]] :
     pick \in [1..Len(OptionalFields) -> 0..2],
     base \in {BaseCfg, [BaseCfg EXCEPT !.os_detect = B(TRUE), !.script_default = B(TRUE)]}}

CfgSet == FlagCfgs \cup OptionalCfgs

InitBuild ==
  /\ cfg \in CfgSet
  /\ argv = <<>>
  /\ pc = "build_command"
  /\ target = NoValue
  /\ cmd = NoValue
  /\ Idle

\* cmd = build_command(cfg)
CallBuildCommand ==
  /\ pc = "build_command"
  /\ cmd' = build_command(cfg)
  /\ pc' = "returned"
  /\ UNCHANGED <<argv, stdin, nread, args, target, choices, cfg, child, exitStatus, out, err, log>>

SpecBuild == InitBuild /\ [][CallBuildCommand]_vars

(***************************************************************************)
(* Vocabulary of the properties.                                           *)
(***************************************************************************)
RECURSIVE Flatten(_)
Flatten(q) == IF q = <<>> THEN <<>> ELSE Head(q) \o Flatten(Tail(q))

\* a flag that is on; an optional string that is present and not empty
IsOn(v) == v = B(TRUE)
IsSet(v) == v.t = "str" /\ v.v # ""

\* the run took its configuration from the prompts
Interactive == log.prompts > 0

\* build_command has been called on cfg
Built == log.builds > 0

\* argv[i] is an argument that is not the value of the option before it
PositionalAt(i) ==
  /\ ArgClass(argv[i]) = "A"
  /\ (i = 1 \/ ArgClass(argv[i - 1]) # "value")

\* the command line asks for the prompts: -i, or no target other than ''
WantsInteractive ==
  \/ \E i \in 1..Len(argv) : argv[i] \in {"-i", "--interactive"}
  \/ ~\E i \in 1..Len(argv) : PositionalAt(i) /\ argv[i] # ""

\* the order of the statements of a run
Rank ==
  ("parse" :> 1) @@ ("dispatch" :> 2) @@ ("strip" :> 3) @@ ("ask_target" :> 3) @@
  ("ask_choices" :> 4) @@ ("namespace" :> 5) @@ ("ask_skip_ping" :> 6) @@
  ("set_scans" :> 7) @@ ("ask_cats" :> 8) @@ ("ask_file" :> 9) @@ ("ask_decoy" :> 10) @@
  ("ask_timing" :> 11) @@ ("ask_ports" :> 12) @@ ("ask_output" :> 13) @@ ("return" :> 14) @@
  ("build" :> 15) @@ ("launch" :> 16) @@ ("wait" :> 17) @@ ("success" :> 18) @@
  ("except" :> 18) @@ ("exited" :> 19)

(***************************************************************************)
(* C1.  build_command returns 'sudo', 'nmap', then in this order: -Pn,     *)
(* -sS, -sT, -sU, -sV, -sC for the flags that are on, --script <cats>,     *)
(* --script <file>, -O, --decoy <list>, the one timing token -T<level>,    *)
(* -p <range>, the target, -oN, -oX, -oG, -oJ each with its path; whatever *)
(* is absent (or an empty string) contributes no token.  Checked under     *)
(* SpecBuild.                                                              *)
(***************************************************************************)
C1_Flag(v, tok) == IF IsOn(v) THEN <<tok>> ELSE <<>>
C1_Pair(v, tok) == IF IsSet(v) THEN <<tok, v.v>> ELSE <<>>
C1_TimingToken(n) == <<"-T0", "-T1", "-T2", "-T3", "-T4", "-T5">>[n + 1]

C1_Tokens(c) ==
  Flatten(<< <<"sudo">>, <<"nmap">>,
             C1_Flag(c.skip_ping, "-Pn"), C1_Flag(c.syn_scan, "-sS"),
             C1_Flag(c.connect_scan, "-sT"), C1_Flag(c.udp_scan, "-sU"),
             C1_Flag(c.version_detect, "-sV"), C1_Flag(c.script_default, "-sC"),
             C1_Pair(c.script_cats, "--script"), C1_Pair(c.script_file, "--script"),
             C1_Flag(c.os_detect, "-O"), C1_Pair(c.decoy, "--decoy"),
             <<C1_TimingToken(c.timing.v)>>, C1_Pair(c.ports, "-p"),
             <<c.target.v>>,
             C1_Pair(c.output_normal, "-oN"), C1_Pair(c.output_xml, "-oX"),
             C1_Pair(c.output_grep, "-oG"), C1_Pair(c.output_json, "-oJ") >>)

\* C1: the list build_command returns is the tokens of the claim, in its order
C1_TokenOrder == pc = "returned" => cmd = C1_Tokens(cfg)

\* both script selectors set: the command holds two --script pairs
C1_Witness ==
  /\ pc = "returned"
  /\ IsSet(cfg.script_cats) /\ IsSet(cfg.script_file) /\ IsSet(cfg.output_json)
  /\ cfg.output_xml = None
  /\ \E i \in 1..(Len(cmd) - 3) :
       /\ cmd[i] = "--script" /\ cmd[i + 1] = "vuln,discovery"
       /\ cmd[i + 2] = "--script" /\ cmd[i + 3] = "a.nse"

(***************************************************************************)
(* C2.  Once the child has been launched and has exited: on status 0 the   *)
(* program prints 'Scan complete.' and ends with status 0; on a status N   *)
(* other than 0 it writes a diagnostic on the error stream, does not print *)
(* 'Scan complete.', and ends with status N.  (A child killed by a signal  *)
(* has no exit status; subprocess gives it a negative return code.)        *)
(***************************************************************************)
\* C2: the report and the exit status follow the exit status of the child
C2_ExitStatusFollowsChild ==
  pc = "exited" /\ child.st = "ended" /\ child.rc >= 0 =>
    IF child.rc = 0
    THEN out[Len(out)] = "Scan complete." /\ exitStatus = 0
    ELSE /\ exitStatus = child.rc
         /\ err # <<>> /\ StartsWith(err[Len(err)], "Error: ")
         /\ ~In("Scan complete.", out)

C2_Witness ==
  /\ pc = "exited" /\ child = ChildEnded(255) /\ exitStatus = 255
  /\ err = <<"Error: Command returned 255">>

(***************************************************************************)
(* C3.  The target of the configuration handed to build_command is not     *)
(* empty and does not begin with 'http://', 'https://' or 'www.'.          *)
(***************************************************************************)
\* C3: the finalized target is not empty and has no scheme or www. prefix
C3_TargetNormalized ==
  Built =>
    /\ cfg.target.v # ""
    /\ ~StartsWith(cfg.target.v, "http://")
    /\ ~StartsWith(cfg.target.v, "https://")
    /\ ~StartsWith(cfg.target.v, "www.")

(***************************************************************************)
(* C4.  The timing of the configuration handed to build_command is an      *)
(* integer in 0..5, and the command holds one of -T0 .. -T5.               *)
(***************************************************************************)
\* C4: the finalized timing is in 0..5 and the timing token is -T0 .. -T5
C4_TimingInRange ==
  Built =>
    /\ cfg.timing.v \in 0..5
    /\ \E i \in 1..Len(cmd) : cmd[i] \in {"-T0", "-T1", "-T2", "-T3", "-T4", "-T5"}

(***************************************************************************)
(* C5.  A command line with an unrecognized option, a -T value outside     *)
(* 0..5 or a value option without its value.                               *)
(***************************************************************************)
C5_UnknownOption == \E i \in 1..Len(argv) : ArgClass(argv[i]) = "unknown"

C5_BadTiming ==
  \E i \in 1..(Len(argv) - 1) :
    /\ argv[i] \in {"-T", "--timing"}
    /\ ArgClass(argv[i + 1]) = "A"
    /\ ~(IsIntLiteral(argv[i + 1]) /\ IntOf(argv[i + 1]) \in 0..5)

C5_MissingValue ==
  \E i \in 1..Len(argv) :
    /\ ArgClass(argv[i]) = "value"
    /\ (i = Len(argv) \/ ArgClass(argv[i + 1]) # "A")

C5_Malformed == C5_UnknownOption \/ C5_BadTiming \/ C5_MissingValue

C5_HelpAsked == \E i \in 1..Len(argv) : argv[i] \in HelpOptions

\* no prompt is shown, no child is launched, and the run goes nowhere past
\* the parser
C5_NothingStarted ==
  log.prompts = 0 /\ log.launches = 0 /\ log.builds = 0 /\ pc \in {"parse", "exited"}

\* C5 as claimed: such a run ends with a usage error and a status other
\* than 0, with no prompt shown and no child launched
C5_UsageErrorAlways ==
  C5_Malformed =>
    /\ C5_NothingStarted
    /\ (pc = "exited" => exitStatus # 0 /\ err = <<"usage: error">>)

\* C5 as amended: the usage error and the status other than 0 are certain
\* when the command line holds no -h/--help; with one, the run may end on
\* the help text with status 0 instead.  Either way no prompt is shown and
\* no child is launched, -i given or not, target given or not.
C5_UsageErrorUnlessHelp ==
  C5_Malformed =>
    /\ C5_NothingStarted
    /\ (pc = "exited" =>
          \/ exitStatus = 2 /\ err = <<"usage: error">> /\ out = <<>>
          \/ C5_HelpAsked /\ exitStatus = 0 /\ out = <<"usage: help">> /\ err = <<>>)

C5_Witness ==
  /\ argv = <<"-i", "-T", "9">>
  /\ pc = "exited" /\ exitStatus = 2 /\ log.prompts = 0 /\ log.launches = 0

(***************************************************************************)
(* C6.  One source makes the configuration: the prompts when -i is given   *)
(* or no target is (an empty target counts as none), the flag parser       *)
(* otherwise.  From the prompts, nothing of the command line reaches the   *)
(* command: every run answering DefaultAnswers builds the same command     *)
(* whatever its command line, and the XML, grepable and JSON paths are     *)
(* absent, so the command holds no -oX, -oG or -oJ.                        *)
(***************************************************************************)
C6_DefaultCommand ==
  <<"sudo", "nmap", "-sV", "-T4", "-p", "1-1000", "t.io", "-oN", "scan.txt">>

\* C6: one source per run, chosen by -i or a missing target; from the prompts
\* nothing of the command line reaches the command, and no -oX, -oG, -oJ
C6_OneSource ==
  /\ Interactive => WantsInteractive
  /\ pc = "strip" => ~WantsInteractive
  /\ Built =>
       IF WantsInteractive
       THEN /\ log.prompts = 9 /\ nread = 9
            /\ stdin = DefaultAnswers => cmd = C6_DefaultCommand
            /\ cfg.output_xml = None /\ cfg.output_grep = None /\ cfg.output_json = None
            /\ ~In("-oX", cmd) /\ ~In("-oG", cmd) /\ ~In("-oJ", cmd)
       ELSE log.prompts = 0 /\ nread = 0 /\ cfg = args

\* -i with a target, a scan flag and an XML path on the command line
C6_Witness ==
  /\ \E i \in 1..Len(argv) : argv[i] = "-i"
  /\ \E i \in 1..(Len(argv) - 1) : argv[i] = "-oX" /\ argv[i + 1] = "www.c.li"
  /\ pc = "launch" /\ cmd = C6_DefaultCommand

(***************************************************************************)
(* C7.  After the scan numbers are applied, flag k (1 syn_scan, 2          *)
(* connect_scan, 3 udp_scan, 4 version_detect, 5 os_detect, 6              *)
(* script_default) is on exactly when the integer k is among the           *)
(* comma-separated integers of the line.                                   *)
(***************************************************************************)
C7_ScanFlag ==
  <<"syn_scan", "connect_scan", "udp_scan", "version_detect", "os_detect", "script_default">>

\* the integer k is one of the items
C7_Occurs(k, items) ==
  \E i \in 1..Len(items) : IsIntLiteral(items[i]) /\ IntOf(items[i]) = k

C7_ScansApplied ==
  Interactive /\ pc \in {"ask_cats", "ask_file", "ask_decoy", "ask_timing", "ask_ports",
                         "ask_output", "return", "build", "launch"}

\* C7: flag k is on exactly when the integer k occurs in the line
C7_FlagsFollowLine ==
  C7_ScansApplied =>
    \A k \in 1..6 : cfg[C7_ScanFlag[k]] = B(C7_Occurs(k, Split(stdin[2], ",")))

(***************************************************************************)
(* C8.  The free-text answers: prompt 4 script_cats, 5 script_file,        *)
(* 6 decoy, 7 timing, 8 ports, 9 output_normal.                            *)
(***************************************************************************)
C8_Field == (4 :> "script_cats") @@ (5 :> "script_file") @@ (6 :> "decoy") @@
            (8 :> "ports") @@ (9 :> "output_normal")

C8_Default == (4 :> None) @@ (5 :> None) @@ (6 :> None) @@
              (8 :> S("1-1000")) @@ (9 :> S("scan.txt"))

\* the run stopped on the ValueError of the timing prompt
C8_TimingAborted ==
  /\ pc = "exited" /\ exitStatus = 1 /\ nread = 7 /\ log.builds = 0
  /\ err = <<"Traceback: ValueError">>

\* C8 as claimed: an empty answer gives the default, any other answer is
\* stored as it is (as its integer for timing)
C8_AnswerStoredAsGiven ==
  /\ \A k \in DOMAIN C8_Field :
       nread >= k /\ ~C8_TimingAborted =>
         cfg[C8_Field[k]] = (IF stdin[k] = "" THEN C8_Default[k] ELSE S(stdin[k]))
  /\ nread >= 7 /\ ~C8_TimingAborted =>
       cfg.timing = (IF stdin[7] = "" THEN N(4) ELSE N(IntOf(stdin[7])))

\* C8 as amended: the answer is stripped of surrounding whitespace first;
\* what is left, when not empty, is stored, and an answer that is empty or
\* all whitespace gives the default, never an empty string.  For timing an
\* empty answer gives 4, an integer literal (whitespace around it allowed)
\* gives its integer, and any other answer ends the run on a ValueError
\* before a command is built.
C8_AnswerStoredStripped ==
  /\ \A k \in DOMAIN C8_Field :
       nread >= k =>
         /\ cfg[C8_Field[k]] =
              (IF Strip(stdin[k]) = "" THEN C8_Default[k] ELSE S(Strip(stdin[k])))
         /\ cfg[C8_Field[k]] # S("")
  /\ nread >= 7 =>
       IF stdin[7] = "" THEN cfg.timing = N(4)
       ELSE IF IsIntLiteral(stdin[7]) THEN cfg.timing = N(IntOf(stdin[7]))
       ELSE C8_TimingAborted

C8_Witness ==
  /\ pc = "build" /\ nread = 9
  /\ stdin[4] = " " /\ cfg.script_cats = None
  /\ stdin[5] = "a.nse" /\ cfg.script_file = S("a.nse")
  /\ stdin[6] = " 10.0.0.9 " /\ cfg.decoy = S("10.0.0.9")
  /\ stdin[7] = " 2 " /\ cfg.timing = N(2)
  /\ stdin[8] = "" /\ cfg.ports = S("1-1000")
  /\ stdin[9] = "" /\ cfg.output_normal = S("scan.txt")

(***************************************************************************)
(* C9.  strip_url removes a leading 'http://' or 'https://' if there is    *)
(* one, then a leading 'www.' if there is one, and nothing else: the       *)
(* result is the input less the longest of the six prefixes '', 'http://', *)
(* 'https://', 'www.', 'http://www.', 'https://www.' it begins with.       *)
(* Checked under SpecStrip.                                                *)
(***************************************************************************)
C9_Prefixes == {"", "http://", "https://", "www.", "http://www.", "https://www."}

\* C9: strip_url removes exactly the scheme and www. prefix, nothing else
C9_StripsExactPrefix ==
  pc = "returned" =>
    LET s == argv[1]
        found == {p \in C9_Prefixes : StartsWith(s, p)}
        longest == CHOOSE p \in found : \A o \in found : Len(o) <= Len(p)
    IN /\ s = longest \o target
       /\ (found = {""} => target = s)
       /\ (s = "https://www.example.com" => target = "example.com")
       /\ (s = "www.test.org" => target = "test.org")
       /\ (s = "example.com" => target = "example.com")

C9_Witness ==
  pc = "returned" /\ argv = <<"https://www.example.com">> /\ target = "example.com"

(***************************************************************************)
(* C10.  A run is one pass parse, prompts, build, launch, wait, report.    *)
(***************************************************************************)
\* the child is launched at most once and only after the command is built,
\* the command is built once, from a configuration, and nothing is reported
\* before the child has ended
C10_OnceEach ==
  /\ log.builds <= 1 /\ log.launches <= log.builds
  /\ (Built => cfg # NoValue)
  /\ (child.st # "none" <=> log.launches = 1)
  /\ (In("Scan complete.", out) \/ (err # <<>> /\ StartsWith(err[Len(err)], "Error: "))
        => child.st = "ended")
  /\ log.prompts <= Len(DefaultAnswers)

\* C10 as claimed: the command line is parsed once in every run
C10_ParsedOnce == C10_OnceEach /\ log.parses <= 1

\* C10 as amended: the command line is parsed once by main and, in an
\* interactive run, a second time inside interactive_mode after its first
\* two prompts; every statement is passed at most once and in order, so
\* every other step happens at most once and a run that has ended (on an
\* error or not) takes no further step.
C10_LinearPass ==
  /\ [](/\ C10_OnceEach
        /\ log.parses <= 2
        /\ (log.parses = 2 <=> Interactive /\ Rank[pc] > Rank["namespace"] /\ nread >= 2))
  /\ [][Rank[pc'] > Rank[pc]]_vars

C10_Witness ==
  /\ pc = "exited" /\ log.parses = 2 /\ log.prompts = 9 /\ log.builds = 1
  /\ log.launches = 1 /\ child = ChildEnded(1) /\ exitStatus = 1

====
